---------------------------- MODULE Spec2Model ----------------------------
(***************************************************************************)
(* astro-llms-txt: the document-set assembly pipeline of src/index.ts      *)
(* (page selection, priority ordering, the per-page loop, the artifact and *)
(* index writes) and the accessibility transformer of                      *)
(* src/accessibilityTransformer.ts.                                        *)
(*                                                                         *)
(* Strings are sequences of one-character strings, so that prefixing,      *)
(* glob matching and collation are computed character by character.       *)
(***************************************************************************)
EXTENDS Integers, Sequences, FiniteSets, TLC

VARIABLES
  pages,        \* PluginContext.pages, as the list of pathnames
  docSet,       \* LlmsConfig.docSet: the configured document sets
  htmlStatus,   \* the disk: per pathname, what reading <pn>/index.html gives
  si,           \* processAllDocSets: index of the set being processed (1-based)
  pc,           \* position of the build:done hook
  selected,     \* processDocSet: `matches` after the two filters
  sorted,       \* processDocSet: `sorted` (matches.sort(...))
  sortKeys,     \* the keys prioritizePathname gave the pages of `sorted`, in its order
  k,            \* processDocSet: index in `sorted` of the page being processed
  entries,      \* processDocSet: `entries`
  failedN,      \* number of pages of the current set that ended in the catch
  artifacts,    \* the disk: per set, whether its file was written and with what
  lines,        \* processAllDocSets: `lines` (one per set, by set index)
  indexWritten, \* the disk: whether llms.txt was written
  cause,        \* what rejected the hook's promise ("none" while it has not)
  tree,         \* accessibilityTransformer: the input tree
  once,         \* the tree after one application
  twice,        \* the tree after applying the transformer to `once`
  stage         \* how many applications have run

vars == <<pages, docSet, htmlStatus, si, pc, selected, sorted, sortKeys, k, entries,
          failedN, artifacts, lines, indexWritten, cause,
          tree, once, twice, stage>>

buildVars == <<pages, docSet, htmlStatus, si, pc, selected, sorted, sortKeys, k, entries,
               failedN, artifacts, lines, indexWritten, cause>>

treeVars == <<tree, once, twice, stage>>

-----------------------------------------------------------------------------
(* Bounds *)

\* longest page list handed to page selection and ordering
MaxPages == 3
\* longest include / exclude / promote / demote list
MaxPatterns == 2
\* longest page list of a whole build
MaxBuildPages == 2
\* most document sets of a whole build
MaxSets == 2
\* most nodes below the root of an input tree
MaxNodes == 3

-----------------------------------------------------------------------------
(* Strings *)

Sentinel == "_"

DocsA == <<"d", "o", "c", "s", "/", "a">>
DocsB == <<"d", "o", "c", "s", "/", "b">>
ApiX == <<"a", "p", "i", "/", "x">>
UDocsA == <<"_", "d", "o", "c", "s", "/", "a">>

\* pathnames a build may hand over
PagePool == {DocsA, DocsB, ApiX, UDocsA}

PatDocsA == <<"d", "o", "c", "s", "/", "a">>
PatAnyA == <<"*", "/", "a">>
PatApiAny == <<"a", "p", "i", "/", "*">>
PatAll == <<"*", "*">>

\* glob patterns a document set may list (PatAll is used as an include
\* pattern only)
PatternPool == {PatDocsA, PatAnyA, PatApiAny}

Range(s) == {s[i] : i \in 1..Len(s)}

RECURSIVE DistinctSeqs(_, _)
\* the sequences of at most n distinct elements of S
DistinctSeqs(S, n) ==
  IF n = 0 THEN {<<>>}
  ELSE LET shorter == DistinctSeqs(S, n - 1)
       IN shorter \cup
          UNION {{Append(s, x) : x \in S \ Range(s)} :
                   s \in {t \in shorter : Len(t) = n - 1}}

RECURSIVE SeqsUpTo(_, _)
\* the sequences of at most n elements of S
SeqsUpTo(S, n) ==
  IF n = 0 THEN {<<>>}
  ELSE LET shorter == SeqsUpTo(S, n - 1)
       IN shorter \cup {Append(s, x) : s \in {t \in shorter : Len(t) = n - 1},
                                       x \in S}

RECURSIVE repeat(_, _)
\* String.prototype.repeat
repeat(c, n) == IF n <= 0 THEN <<>> ELSE <<c>> \o repeat(c, n - 1)

RECURSIVE GlobMatch(_, _)
\* micromatch's glob language, as far as PatternPool uses it: a literal
\* character matches itself, * any run of characters other than "/", and
\* ** any run of characters.
GlobMatch(s, p) ==
  IF p = <<>> THEN s = <<>>
  ELSE IF Len(p) >= 2 /\ p[1] = "*" /\ p[2] = "*"
    THEN \E n \in 0..Len(s) :
           GlobMatch(SubSeq(s, n + 1, Len(s)), SubSeq(p, 3, Len(p)))
  ELSE IF p[1] = "*"
    THEN \E n \in 0..Len(s) :
           /\ \A i \in 1..n : s[i] # "/"
           /\ GlobMatch(SubSeq(s, n + 1, Len(s)), Tail(p))
  ELSE s # <<>> /\ s[1] = p[1] /\ GlobMatch(Tail(s), Tail(p))

\* micromatch.isMatch(str, pattern): the empty string matches no pattern
isMatch(str, pat) == str # <<>> /\ GlobMatch(str, pat)

\* Array.prototype.some over a pattern list
someMatch(pn, pats) == \E i \in 1..Len(pats) : isMatch(pn, pats[i])

\* Array.prototype.findIndex over a pattern list: 0-based, -1 when none
findIndex(pats, id) ==
  IF someMatch(id, pats)
    THEN (CHOOSE i \in 1..Len(pats) :
            isMatch(id, pats[i]) /\ \A j \in 1..(i - 1) : ~isMatch(id, pats[j])) - 1
    ELSE -1

\* primary collation weight of a character under Intl.Collator('en'):
\* "_" is the first punctuation character, "/" a later one, letters follow
CollRank(c) ==
  CASE c = "_" -> 1
    [] c = "/" -> 2
    [] c = "a" -> 3
    [] c = "b" -> 4
    [] c = "c" -> 5
    [] c = "d" -> 6
    [] c = "i" -> 7
    [] c = "o" -> 8
    [] c = "p" -> 9
    [] c = "s" -> 10
    [] c = "x" -> 11

RECURSIVE compare(_, _)
\* collator.compare(x, y): -1, 0 or 1
compare(x, y) ==
  IF x = <<>> THEN (IF y = <<>> THEN 0 ELSE -1)
  ELSE IF y = <<>> THEN 1
  ELSE IF CollRank(x[1]) < CollRank(y[1]) THEN -1
  ELSE IF CollRank(x[1]) > CollRank(y[1]) THEN 1
  ELSE compare(Tail(x), Tail(y))

-----------------------------------------------------------------------------
(* processDocSet: selection and ordering *)

\* a DocSet, as far as selection and ordering read it. hasExclude is whether
\* set.exclude is given at all; an omitted promote or demote reaches
\* prioritizePathname as [] through its default parameters.
DocSetOf(inc, hasExc, exc, pro, dem) ==
  [include |-> inc, hasExclude |-> hasExc, exclude |-> exc,
   promote |-> pro, demote |-> dem]

PatternLists == SeqsUpTo(PatternPool, MaxPatterns)

\* mutant: the exclude filter keeps a page unless every exclude pattern matches it
selectMatches_ExcludeEvery(ps, set) ==
  LET included == SelectSeq(ps, LAMBDA pn : someMatch(pn, set.include))
  IN IF set.hasExclude
       THEN SelectSeq(included,
              LAMBDA pn : ~(\A i \in 1..Len(set.exclude) : isMatch(pn, set.exclude[i])))
       ELSE included

\* `matches`: the pathnames matching some include pattern, less (when
\* set.exclude is given) those matching some exclude pattern
selectMatches(ps, set) ==
  LET included == SelectSeq(ps, LAMBDA pn : someMatch(pn, set.include))
  IN IF set.hasExclude
       THEN SelectSeq(included, LAMBDA pn : ~someMatch(pn, set.exclude))
       ELSE included

\* mutant: no offset for the unmatched demote list (each term is 0 unless matched)
prefixLength_NoOffset(id, promote, demote) ==
  LET demoted == findIndex(demote, id)
      promoted == IF demoted > -1 THEN -1 ELSE findIndex(promote, id)
  IN (IF promoted > -1 THEN Len(promote) - promoted ELSE 0)
     + (IF demoted > -1 THEN Len(demote) - demoted - 1 ELSE 0)

\* mutant: the promote term is one short (promote.length - promoted - 1)
prefixLength_OffByOne(id, promote, demote) ==
  LET demoted == findIndex(demote, id)
      promoted == IF demoted > -1 THEN -1 ELSE findIndex(promote, id)
  IN (IF promoted > -1 THEN Len(promote) - promoted - 1 ELSE 0)
     + Len(demote) - demoted - 1

\* mutant: a demoted path's prefix grows with the index of its demote pattern
prefixLength_DemoteReversed(id, promote, demote) ==
  LET demoted == findIndex(demote, id)
      promoted == IF demoted > -1 THEN -1 ELSE findIndex(promote, id)
  IN IF demoted > -1 THEN demoted
     ELSE (IF promoted > -1 THEN Len(promote) - promoted ELSE 0) + Len(demote)

\* prioritizePathname's prefixLength
prefixLength(id, promote, demote) ==
  LET demoted == findIndex(demote, id)
      promoted == IF demoted > -1 THEN -1 ELSE findIndex(promote, id)
  IN (IF promoted > -1 THEN Len(promote) - promoted ELSE 0)
     + Len(demote) - demoted - 1

\* prioritizePathname: the sort key of a pathname
prioritizePathname(id, promote, demote) ==
  repeat(Sentinel, prefixLength(id, promote, demote)) \o id

\* the comparator handed to matches.sort
sortComparator(a, b, set) ==
  compare(prioritizePathname(a, set.promote, set.demote),
          prioritizePathname(b, set.promote, set.demote))

RECURSIVE insertStable(_, _, _)
\* x placed after every element of s that does not compare after it
insertStable(s, x, set) ==
  IF s = <<>> THEN <<x>>
  ELSE IF sortComparator(s[Len(s)], x, set) <= 0 THEN Append(s, x)
  ELSE Append(insertStable(SubSeq(s, 1, Len(s) - 1), x, set), s[Len(s)])

RECURSIVE sortFrom(_, _, _)
sortFrom(done, rest, set) ==
  IF rest = <<>> THEN done
  ELSE sortFrom(insertStable(done, rest[1], set), Tail(rest), set)

\* matches.sort(comparator): Array.prototype.sort is stable, so pages whose
\* keys compare equal keep their order in `matches`
sortMatches(ms, set) == sortFrom(<<>>, ms, set)

keysOf(ms, set) ==
  [i \in 1..Len(ms) |-> prioritizePathname(ms[i], set.promote, set.demote)]

-----------------------------------------------------------------------------
(* The build:done hook: processAllDocSets, processDocSet, the index *)

\* what reading a page's index.html gives: the entry, a failed fs.access, or
\* a document without the main selector
HtmlStatus == {"ok", "nofile", "nomain"}

NotWritten == [written |-> FALSE, entries |-> <<>>]

\* the tree variables while the hook runs
TreeIdle ==
  /\ tree = <<>>
  /\ once = <<>>
  /\ twice = <<>>
  /\ stage = "idle"

\* the hook's state as processAllDocSets enters its loop
HookStart ==
  /\ si = 1
  /\ pc = IF docSet = <<>> THEN "index" ELSE "set"
  /\ selected = <<>>
  /\ sorted = <<>>
  /\ sortKeys = <<>>
  /\ k = 0
  /\ entries = <<>>
  /\ failedN = 0
  /\ artifacts = [i \in 1..Len(docSet) |-> NotWritten]
  /\ lines = <<>>
  /\ indexWritten = FALSE
  /\ cause = "none"

AllOk == [p \in PagePool |-> "ok"]

\* one document set over any page list: include and exclude vary
InitSelect ==
  /\ pages \in DistinctSeqs(PagePool, MaxPages)
  /\ docSet \in {<<DocSetOf(inc, hasExc, exc, <<>>, <<>>)>> :
                    inc \in PatternLists, hasExc \in BOOLEAN, exc \in PatternLists}
  /\ docSet[1].hasExclude \/ docSet[1].exclude = <<>>
  /\ htmlStatus = AllOk
  /\ HookStart
  /\ TreeIdle

\* one document set including every page: promote and demote vary
InitOrder ==
  /\ pages \in DistinctSeqs(PagePool, MaxPages)
  /\ docSet \in {<<DocSetOf(<<PatAll>>, FALSE, <<>>, pro, dem)>> :
                    pro \in PatternLists, dem \in PatternLists}
  /\ htmlStatus = AllOk
  /\ HookStart
  /\ TreeIdle

\* the document sets of a whole build
DocSetPool ==
  {DocSetOf(<<PatAll>>, FALSE, <<>>, <<PatDocsA>>, <<>>),
   DocSetOf(<<PatAll>>, TRUE, <<PatDocsA>>, <<>>, <<PatAnyA>>)}

\* a whole build: some pages' HTML is missing or lacks the main root
Init ==
  /\ pages \in DistinctSeqs(PagePool, MaxBuildPages)
  /\ docSet \in SeqsUpTo(DocSetPool, MaxSets)
  /\ htmlStatus \in {hs \in [PagePool -> HtmlStatus] :
                        \A p \in PagePool \ Range(pages) : hs[p] = "ok"}
  /\ HookStart
  /\ TreeIdle

\* processDocSet up to its page loop: filter, sort, entries = []
BeginDocSet ==
  /\ pc = "set"
  /\ selected' = selectMatches(pages, docSet[si])
  /\ sorted' = sortMatches(selected', docSet[si])
  /\ sortKeys' = keysOf(sorted', docSet[si])
  /\ pc' = IF sorted' = <<>> THEN "write" ELSE "page"
  /\ k' = 1
  /\ entries' = <<>>
  /\ failedN' = 0
  /\ UNCHANGED <<pages, docSet, htmlStatus, si, artifacts, lines, indexWritten, cause>>
  /\ UNCHANGED treeVars

\* the for-of loop moves to the next page, or past the last one
nextPage == IF k = Len(sorted) THEN "write" ELSE "page"

\* mutant: the error of a page is thrown on, out of processDocSet
catchPageError_Rethrow ==
  /\ pc' = "aborted"
  /\ cause' = "page"
  /\ UNCHANGED <<pages, docSet, htmlStatus, si, selected, sorted, sortKeys, k,
                 entries, failedN, artifacts, lines, indexWritten>>
  /\ UNCHANGED treeVars

\* mutant: the catch ends the loop
catchPageError_Break ==
  /\ failedN' = failedN + 1
  /\ k' = k + 1
  /\ pc' = "write"
  /\ UNCHANGED <<pages, docSet, htmlStatus, si, selected, sorted, sortKeys,
                 entries, artifacts, lines, indexWritten, cause>>
  /\ UNCHANGED treeVars

\* the catch of the page loop: the error is logged, nothing is pushed, the
\* loop goes on
catchPageError ==
  /\ failedN' = failedN + 1
  /\ k' = k + 1
  /\ pc' = nextPage
  /\ UNCHANGED <<pages, docSet, htmlStatus, si, selected, sorted, sortKeys,
                 entries, artifacts, lines, indexWritten, cause>>
  /\ UNCHANGED treeVars

\* fs.access rejects: the page's index.html is not there
PageAccessFails ==
  /\ pc = "page"
  /\ htmlStatus[sorted[k]] = "nofile"
  /\ catchPageError

\* buildEntryFromHtml throws: the document has no element for mainSelector
PageMainMissing ==
  /\ pc = "page"
  /\ htmlStatus[sorted[k]] = "nomain"
  /\ catchPageError

\* fs.access and buildEntryFromHtml succeed: the entry is pushed
PageOk ==
  /\ pc = "page"
  /\ htmlStatus[sorted[k]] = "ok"
  /\ entries' = Append(entries, sorted[k])
  /\ k' = k + 1
  /\ pc' = nextPage
  /\ UNCHANGED <<pages, docSet, htmlStatus, si, selected, sorted, sortKeys,
                 failedN, artifacts, lines, indexWritten, cause>>
  /\ UNCHANGED treeVars

\* an error nobody catches rejects the hook's promise
Abort(why) ==
  /\ pc' = "aborted"
  /\ cause' = why
  /\ UNCHANGED <<pages, docSet, htmlStatus, si, selected, sorted, sortKeys, k,
                 entries, failedN, artifacts, lines, indexWritten>>
  /\ UNCHANGED treeVars

\* fs.mkdir and fs.writeFile of the set's artifact succeed
WriteArtifact ==
  /\ pc = "write"
  /\ artifacts' = [artifacts EXCEPT ![si] = [written |-> TRUE, entries |-> entries]]
  /\ pc' = "url"
  /\ UNCHANGED <<pages, docSet, htmlStatus, si, selected, sorted, sortKeys, k,
                 entries, failedN, lines, indexWritten, cause>>
  /\ UNCHANGED treeVars

\* fs.mkdir or fs.writeFile of the set's artifact throws
WriteArtifactFails ==
  /\ pc = "write"
  /\ Abort("write")

\* new URL(set.url, astroConfig.site) succeeds: the set's index line is pushed
ResolveUrl ==
  /\ pc = "url"
  /\ lines' = Append(lines, si)
  /\ si' = si + 1
  /\ pc' = IF si = Len(docSet) THEN "index" ELSE "set"
  /\ UNCHANGED <<pages, docSet, htmlStatus, selected, sorted, sortKeys, k,
                 entries, failedN, artifacts, indexWritten, cause>>
  /\ UNCHANGED treeVars

\* new URL(set.url, astroConfig.site) throws (no site, or an invalid url)
ResolveUrlFails ==
  /\ pc = "url"
  /\ Abort("url")

\* buildLlmsIndex and the write of llms.txt succeed
WriteIndex ==
  /\ pc = "index"
  /\ indexWritten' = TRUE
  /\ pc' = "done"
  /\ UNCHANGED <<pages, docSet, htmlStatus, si, selected, sorted, sortKeys, k,
                 entries, failedN, artifacts, lines, cause>>
  /\ UNCHANGED treeVars

\* the write of llms.txt throws
WriteIndexFails ==
  /\ pc = "index"
  /\ Abort("index")

Next ==
  \/ BeginDocSet
  \/ PageOk
  \/ PageAccessFails
  \/ PageMainMissing
  \/ WriteArtifact
  \/ WriteArtifactFails
  \/ ResolveUrl
  \/ ResolveUrlFails
  \/ WriteIndex
  \/ WriteIndexFails

Spec == Init /\ [][Next]_vars

SpecSelect == InitSelect /\ [][BeginDocSet]_vars

SpecOrder == InitOrder /\ [][BeginDocSet]_vars

-----------------------------------------------------------------------------
(* Claims about selection and ordering *)

\* processDocSet has filtered and sorted the pages of the current set
Ordered == pc \in {"page", "write"} /\ k = 1

CurSet == docSet[si]

PosOf(p) == CHOOSE i \in 1..Len(sorted) : sorted[i] = p

MatchIdx(p, pats) == {i \in 1..Len(pats) : isMatch(p, pats[i])}

\* 0-based index of the first pattern matching p (p matches some pattern)
FirstIdx(p, pats) ==
  (CHOOSE i \in MatchIdx(p, pats) : \A j \in MatchIdx(p, pats) : i <= j) - 1

IsDemoted(p) == MatchIdx(p, CurSet.demote) # {}
IsPromoted(p) == ~IsDemoted(p) /\ MatchIdx(p, CurSet.promote) # {}
IsNeutral(p) == ~IsDemoted(p) /\ MatchIdx(p, CurSet.promote) = {}

\* the path starts with a character the collator orders after the sentinel
PlainPath(p) == p # <<>> /\ CollRank(p[1]) > CollRank(Sentinel)

\* C1: a pathname is selected iff it is a page matching at least one include
\* pattern and no exclude pattern; an empty (or omitted) exclude list
\* excludes nothing, an empty include list selects nothing.
C1_Selection ==
  Ordered =>
    /\ \A pn \in PagePool :
         pn \in Range(selected) <=>
           /\ pn \in Range(pages)
           /\ MatchIdx(pn, CurSet.include) # {}
           /\ MatchIdx(pn, CurSet.exclude) = {}
    /\ Len(selected) = Cardinality(Range(selected))
    /\ CurSet.include = <<>> => selected = <<>>
    /\ CurSet.exclude = <<>> =>
         Range(selected) = {pn \in Range(pages) : MatchIdx(pn, CurSet.include) # {}}

\* C1 witness: a given, non-empty exclude list removed an included page and
\* kept another, and some page matched no include pattern
C1_Witness ==
  /\ Ordered
  /\ CurSet.hasExclude
  /\ \E a, b, c \in Range(pages) :
       /\ MatchIdx(a, CurSet.include) # {} /\ MatchIdx(a, CurSet.exclude) # {}
       /\ b \in Range(selected)
       /\ MatchIdx(c, CurSet.include) = {}

\* C2: among paths that start with a character ordered after the sentinel,
\* every promoted (and not demoted) path sorts before every neutral path and
\* every demoted path after every neutral path; pages docs/a and docs/b with
\* demote = ["docs/a"] come out as docs/b, docs/a.
C2_Bands ==
  Ordered =>
    /\ \A a, b \in Range(sorted) :
         (PlainPath(a) /\ PlainPath(b)) =>
           /\ (IsPromoted(a) /\ IsNeutral(b)) => PosOf(a) < PosOf(b)
           /\ (IsNeutral(a) /\ IsDemoted(b)) => PosOf(a) < PosOf(b)
    /\ (Range(pages) = {DocsA, DocsB} /\ CurSet.demote = <<PatDocsA>>
          /\ CurSet.promote = <<>>) => sorted = <<DocsB, DocsA>>

\* C2 witness: a promoted, a neutral and a demoted plain path, handed over in
\* the opposite order, were sorted
C2_Witness ==
  /\ Ordered
  /\ Len(pages) = 3
  /\ PlainPath(pages[1]) /\ PlainPath(pages[2]) /\ PlainPath(pages[3])
  /\ IsDemoted(pages[1]) /\ IsNeutral(pages[2]) /\ IsPromoted(pages[3])
  /\ sorted = <<pages[3], pages[2], pages[1]>>

\* C3 (as claimed): of two paths matching no demote pattern, the one whose
\* first promote match is listed earlier sorts first.
C3_PromoteOrder ==
  Ordered =>
    \A a, b \in Range(sorted) :
      (IsPromoted(a) /\ IsPromoted(b)
         /\ FirstIdx(a, CurSet.promote) < FirstIdx(b, CurSet.promote))
        => PosOf(a) < PosOf(b)

\* C7 (as claimed): of two demoted paths, the one whose first demote match is
\* listed later sorts first.
C7_LatestDemoteFirst ==
  Ordered =>
    \A a, b \in Range(sorted) :
      (IsDemoted(a) /\ IsDemoted(b)
         /\ FirstIdx(a, CurSet.demote) > FirstIdx(b, CurSet.demote))
        => PosOf(a) < PosOf(b)

\* C7 (amended): of two demoted paths that start with a character ordered
\* after the sentinel, the one whose first demote match is listed EARLIER
\* sorts first.
C7_EarliestDemoteFirst ==
  Ordered =>
    \A a, b \in Range(sorted) :
      (PlainPath(a) /\ PlainPath(b) /\ IsDemoted(a) /\ IsDemoted(b)
         /\ FirstIdx(a, CurSet.demote) < FirstIdx(b, CurSet.demote))
        => PosOf(a) < PosOf(b)

\* C7 witness: two demoted plain paths with different first demote matches,
\* handed over later-listed first, were sorted
C7_Witness ==
  /\ Ordered
  /\ Len(pages) >= 2
  /\ PlainPath(pages[1]) /\ PlainPath(pages[2])
  /\ IsDemoted(pages[1]) /\ IsDemoted(pages[2])
  /\ FirstIdx(pages[1], CurSet.demote) > FirstIdx(pages[2], CurSet.demote)
  /\ PosOf(pages[2]) < PosOf(pages[1])

\* the number of sentinel characters prioritizePathname put before sorted[i]
PrefixedAt(i) == Len(sortKeys[i]) - Len(sorted[i])

\* the bias as the specification words it
SpecBias(p) ==
  IF IsDemoted(p) THEN Len(CurSet.demote) - FirstIdx(p, CurSet.demote) - 1
  ELSE IF IsPromoted(p)
    THEN (Len(CurSet.promote) - FirstIdx(p, CurSet.promote) - 1) + Len(CurSet.demote)
  ELSE 0

\* the bias with the promote term one larger and a neutral path at demoteCount
AmendedBias(p) ==
  IF IsDemoted(p) THEN Len(CurSet.demote) - FirstIdx(p, CurSet.demote) - 1
  ELSE IF IsPromoted(p)
    THEN (Len(CurSet.promote) - FirstIdx(p, CurSet.promote)) + Len(CurSet.demote)
  ELSE Len(CurSet.demote)

\* C8 (as claimed): the number of sentinel characters prefixed is
\* (promoteCount - p - 1) + demoteCount for a promoted path, demoteCount - d - 1
\* for a demoted one and 0 for a path matching neither list.
C8_SpecBias ==
  Ordered => \A i \in 1..Len(sorted) : PrefixedAt(i) = SpecBias(sorted[i])

\* C8 (amended): the number of sentinel characters prefixed is
\* (promoteCount - p) + demoteCount for a promoted path, demoteCount - d - 1
\* for a demoted one and demoteCount for a path matching neither list; the
\* key is that many sentinels followed by the path.
C8_CodeBias ==
  Ordered =>
    \A i \in 1..Len(sorted) :
      /\ PrefixedAt(i) = AmendedBias(sorted[i])
      /\ sortKeys[i] = repeat(Sentinel, AmendedBias(sorted[i])) \o sorted[i]

\* C8 witness: a promoted, a neutral and a demoted path were given keys, with
\* both lists non-empty
C8_Witness ==
  /\ Ordered
  /\ \E a, b, c \in Range(sorted) : IsPromoted(a) /\ IsNeutral(b) /\ IsDemoted(c)
  /\ Len(CurSet.promote) = 2

\* C9 (as claimed): a path matching a demote and a promote pattern gets the
\* key it would get with no promote match, and sorts after every path that
\* matches neither list.
C9_DemoteWins ==
  Ordered =>
    \A a \in Range(sorted) :
      (MatchIdx(a, CurSet.demote) # {} /\ MatchIdx(a, CurSet.promote) # {}) =>
        /\ sortKeys[PosOf(a)] = prioritizePathname(a, <<>>, CurSet.demote)
        /\ \A b \in Range(sorted) : IsNeutral(b) => PosOf(b) < PosOf(a)

RECURSIVE LeadRun(_)
\* length of the leading run of sentinel characters
LeadRun(s) == IF s # <<>> /\ s[1] = Sentinel THEN 1 + LeadRun(Tail(s)) ELSE 0

\* C10 (as claimed): whatever the paths, a key's leading sentinel run has the
\* length of the path's bias, a larger bias sorts first, and distinct paths
\* have distinct keys.
C10_NoCollision ==
  Ordered =>
    \A i, j \in 1..Len(sorted) :
      /\ LeadRun(sortKeys[i]) = PrefixedAt(i)
      /\ PrefixedAt(i) > PrefixedAt(j) => i < j
      /\ i # j => sortKeys[i] # sortKeys[j]

-----------------------------------------------------------------------------
(* Claims about the page loop and the hook *)

\* the pages of s whose HTML gives an entry
Successful(s) == SelectSeq(s, LAMBDA p : htmlStatus[p] = "ok")

\* C4: a page whose HTML cannot be accessed or lacks the main root adds no
\* entry and does not stop the loop: after the loop the entries are those of
\* the successfully processed selected pages, in priority order, their number
\* is the number of selected pages less the failed ones, and the artifact
\* written holds exactly them.
C4_FailedPagesSkipped ==
  /\ pc = "page" =>
       /\ entries = Successful(SubSeq(sorted, 1, k - 1))
       /\ failedN = (k - 1) - Len(entries)
  /\ pc \in {"write", "url"} =>
       /\ entries = Successful(sorted)
       /\ Len(entries) = Len(selected) - failedN
       /\ failedN = Cardinality({p \in Range(selected) : htmlStatus[p] # "ok"})
  /\ pc = "url" =>
       artifacts[si] = [written |-> TRUE, entries |-> Successful(sorted)]
  /\ cause # "page"

\* C4 witness: the first page of the set failed, the next one gave an entry,
\* and the artifact was written
C4_Witness ==
  /\ pc = "url"
  /\ Len(sorted) = 2
  /\ htmlStatus[sorted[1]] = "nomain"
  /\ artifacts[si].written
  /\ artifacts[si].entries = <<sorted[2]>>

\* C5 (as claimed): when the hook ends, whatever failed while a page or a set
\* was processed, every other set has been processed and llms.txt is written.
C5_NothingAborts ==
  (pc \in {"done", "aborted"} /\ cause # "index") =>
    /\ indexWritten
    /\ \A i \in 1..Len(docSet) : i # si => artifacts[i].written

\* C5 (amended): the error of a page never ends the hook; the hook ends early
\* only on a failed artifact write, URL resolution or index write, and then
\* no later set is processed and llms.txt is not written; otherwise every
\* set's artifact, every index line and llms.txt are written.
C5_OnlyPageErrorsContained ==
  /\ cause # "page"
  /\ pc = "aborted" =>
       /\ cause \in {"write", "url", "index"}
       /\ ~indexWritten
       /\ cause \in {"write", "url"} =>
            /\ si <= Len(docSet)
            /\ \A i \in (si + 1)..Len(docSet) : ~artifacts[i].written
            /\ Len(lines) = si - 1
  /\ pc = "done" =>
       /\ indexWritten
       /\ \A i \in 1..Len(docSet) : artifacts[i].written
       /\ lines = [i \in 1..Len(docSet) |-> i]

\* C5 witness: two sets, a failed page in the last one, and the hook ended
\* with llms.txt written
C5_Witness ==
  /\ pc = "done"
  /\ Len(docSet) = 2
  /\ failedN >= 1
  /\ indexWritten

-----------------------------------------------------------------------------
(* accessibilityTransformer *)

\* a hast node. A property that is not set is "undefined"; the boolean true
\* is "bool:true", a string s is "str:" followed by s.
Node(type, tagName, ariaHidden, alt, ariaLabel, value, children) ==
  [type |-> type, tagName |-> tagName, ariaHidden |-> ariaHidden, alt |-> alt,
   ariaLabel |-> ariaLabel, value |-> value, children |-> children]

TextNode(value) ==
  Node("text", "", "undefined", "undefined", "undefined", value, <<>>)

Element(tagName, ariaHidden, alt, ariaLabel, children) ==
  Node("element", tagName, ariaHidden, alt, ariaLabel, "", children)

Root(children) ==
  Node("root", "", "undefined", "undefined", "undefined", "", children)

\* nodes that take no children: a text, a decorative image, an image with
\* alternative text, an element hidden by the boolean true
LeafNodes ==
  {TextNode("str:t"),
   Element("img", "undefined", "str:", "undefined", <<>>),
   Element("img", "undefined", "str:pic", "undefined", <<>>),
   Element("span", "bool:true", "undefined", "undefined", <<>>)}

\* elements that take children: plain, aria-hidden="true", aria-label="L",
\* aria-label=""
ParentNodes(children) ==
  {Element("div", "undefined", "undefined", "undefined", children),
   Element("div", "str:true", "undefined", "undefined", children),
   Element("a", "undefined", "undefined", "str:L", children),
   Element("div", "undefined", "undefined", "str:", children)}

RECURSIVE Forests(_)
\* the child lists holding n nodes in all, descendants counted
Forests(n) ==
  IF n = 0 THEN {<<>>}
  ELSE UNION {
         LET firsts == IF m = 1
                         THEN LeafNodes \cup ParentNodes(<<>>)
                         ELSE UNION {ParentNodes(f) : f \in Forests(m - 1)}
         IN {<<t>> \o rest : t \in firsts, rest \in Forests(n - m)}
         : m \in 1..n}

\* the trees of at most n nodes below the root
Trees(n) == UNION {{Root(f) : f \in Forests(m)} : m \in 0..n}

\* the two tests handed to unist-util-remove
passes(node, test) ==
  CASE test = "ariaHidden" ->
         node.type = "element" /\ node.ariaHidden \in {"bool:true", "str:true"}
    [] test = "imgEmptyAlt" ->
         node.type = "element" /\ node.tagName = "img" /\ node.alt = "str:"

RECURSIVE removeFrom(_, _)
\* unist-util-remove below the root: a node passing the test goes with its
\* subtree, and so does (cascade) a node that had children and lost them all
removeFrom(children, test) ==
  IF children = <<>> THEN <<>>
  ELSE LET node == children[1]
           kids == removeFrom(node.children, test)
           kept == IF passes(node, test) THEN <<>>
                   ELSE IF node.children # <<>> /\ kids = <<>> THEN <<>>
                   ELSE <<[node EXCEPT !.children = kids]>>
       IN kept \o removeFrom(Tail(children), test)

\* remove(tree, test) of unist-util-remove 4: the root itself is neither
\* tested nor dropped, its child list is pruned in place
remove(t, test) == [t EXCEPT !.children = removeFrom(t.children, test)]

\* mutant: the label's text is pushed without clearing the children
replaceChildren_Push(element) ==
  [element EXCEPT !.children =
     Append(@, TextNode(element.ariaLabel))]

\* element.children = [] and the push of the label's text
replaceChildren(element) ==
  [element EXCEPT !.children = <<TextNode(element.ariaLabel)>>]

\* ariaLabelValue is set: the property is neither undefined nor ''
hasAriaLabel(node) ==
  node.type = "element" /\ node.ariaLabel \notin {"undefined", "str:"}

RECURSIVE labelAll(_)
\* the loop over selectAll('[aria-label]'): what it leaves in the tree. An
\* element below a labelled element is cut off with that element's children.
labelAll(children) ==
  IF children = <<>> THEN <<>>
  ELSE LET node == children[1]
       IN <<IF hasAriaLabel(node) THEN replaceChildren(node)
            ELSE [node EXCEPT !.children = labelAll(node.children)]>>
          \o labelAll(Tail(children))

\* the transformer: aria-hidden, then img alt="", then aria-label
accessibilityTransformer(t) ==
  LET shown == remove(t, "ariaHidden")
      undecorated == remove(shown, "imgEmptyAlt")
  IN [undecorated EXCEPT !.children = labelAll(undecorated.children)]

\* the hook's variables while the transformer is run on its own
HookIdle ==
  /\ pages = <<>>
  /\ docSet = <<>>
  /\ htmlStatus = AllOk
  /\ HookStart

InitTree ==
  /\ tree \in Trees(MaxNodes)
  /\ once = <<>>
  /\ twice = <<>>
  /\ stage = "input"
  /\ HookIdle

\* the transformer is applied to the input tree
ApplyOnce ==
  /\ stage = "input"
  /\ once' = accessibilityTransformer(tree)
  /\ stage' = "once"
  /\ UNCHANGED <<tree, twice>>
  /\ UNCHANGED buildVars

\* the transformer is applied to its own output
ApplyAgain ==
  /\ stage = "once"
  /\ twice' = accessibilityTransformer(once)
  /\ stage' = "twice"
  /\ UNCHANGED <<tree, once>>
  /\ UNCHANGED buildVars

NextTree == ApplyOnce \/ ApplyAgain

SpecTree == InitTree /\ [][NextTree]_vars

RECURSIVE CountNodes(_)
\* the nodes of a child list, descendants counted
CountNodes(children) ==
  IF children = <<>> THEN 0
  ELSE 1 + CountNodes(children[1].children) + CountNodes(Tail(children))

\* C6: applying the transformer to its own output gives that output again.
C6_Idempotent == stage = "twice" => twice = once

\* C6 witness: a first application that removed nodes and put a label's text
\* in place of an element's children was followed by a second one
C6_Witness ==
  /\ stage = "twice"
  /\ CountNodes(tree.children) = 3
  /\ CountNodes(once.children) = 2
  /\ \E i \in 1..Len(once.children) :
       /\ hasAriaLabel(once.children[i])
       /\ once.children[i].children = <<TextNode("str:L")>>
       /\ tree.children[i].children # <<TextNode("str:L")>>

=============================================================================
